---- MODULE Spec2Model ----
(***************************************************************************)
(* Model of app/processor.py of stock-backtest-composite:                  *)
(* validate_input_message followed by compute_composite_signal on one      *)
(* incoming message.                                                       *)
(*                                                                         *)
(* Python values are encoded as pairs <<type, payload>>; a dict is a TLA+  *)
(* function whose domain is the set of keys present.  Dict objects live in *)
(* `heap` (a sequence, object i is heap[i]) so that "returns the same      *)
(* object" and "builds a new object" are different things in the model.    *)
(***************************************************************************)
EXTENDS Integers, Sequences, FiniteSets, TLC

VARIABLES heap, received, schemaOk, loggerRaises, pc, error,
          validatedRef, argRef, enrichedRef, calls

vars == <<heap, received, schemaOk, loggerRaises, pc, error,
          validatedRef, argRef, enrichedRef, calls>>

(* How many times compute_composite_signal is applied in a row, the second *)
(* and later applications taking the previous output as their argument.    *)
MaxCalls == 2

(***************************************************************************)
(* Python values                                                           *)
(***************************************************************************)
None == <<"none", "">>
Str(s) == <<"str", s>>
Bool(b) == <<"bool", b>>
Num(n) == <<"int", n>>
Dict(f) == <<"dict", f>>
Raise(e) == <<"raise", e>>
Missing == <<"missing", "">>

NoRef == 0

\* bool(v), as the `if` of line 55 evaluates it
Truthy(v) ==
    CASE v[1] = "none" -> FALSE
      [] v[1] = "bool" -> v[2] = "True"
      [] v[1] = "int"  -> v[2] # "0"
      [] v[1] = "str"  -> v[2] # ""
      [] v[1] = "dict" -> DOMAIN v[2] # {}
      [] OTHER -> TRUE

\* a mutant of get: message[key], which raises KeyError when the key is missing
subscript(m, key, default) ==
    IF key \in DOMAIN m THEN m[key] ELSE Raise("KeyError")

\* message.get(key, default)
get(m, key, default) ==
    IF key \in DOMAIN m THEN m[key] ELSE default

\* x in (t1, t2, ...): some element of the tuple equals x
In(x, tuple) == \E i \in 1..Len(tuple) : tuple[i] = x

\* {**a, **b}: the keys of both, b winning on collision
MergeMessageWins(a, b) ==
    [k \in DOMAIN a \cup DOMAIN b |-> IF k \in DOMAIN a THEN a[k] ELSE b[k]]

Merge(a, b) ==
    [k \in DOMAIN a \cup DOMAIN b |-> IF k \in DOMAIN b THEN b[k] ELSE a[k]]

(***************************************************************************)
(* validate_input_message                                                  *)
(***************************************************************************)
LogLevels == {"debug", "info", "error"}

\* a mutant that logs the rejection but does not raise
validate_input_message_no_raise(h, ref, ok, raises) ==
    IF "debug" \in raises
    THEN [error |-> "LogError", heap |-> h, ref |-> NoRef]
    ELSE IF ~ok /\ "error" \in raises
    THEN [error |-> "LogError", heap |-> h, ref |-> NoRef]
    ELSE [error |-> "none", heap |-> h, ref |-> ref]

\* a mutant that returns a cleaned copy without the null-valued keys
validate_input_message_strip(h, ref, ok, raises) ==
    IF "debug" \in raises
    THEN [error |-> "LogError", heap |-> h, ref |-> NoRef]
    ELSE IF ~ok
    THEN IF "error" \in raises
         THEN [error |-> "LogError", heap |-> h, ref |-> NoRef]
         ELSE [error |-> "ValueError", heap |-> h, ref |-> NoRef]
    ELSE [error |-> "none",
          heap |-> Append(h, [k \in {j \in DOMAIN h[ref] : h[ref][j] # None}
                                |-> h[ref][k]]),
          ref |-> Len(h) + 1]

\* h: the heap, ref: the message object, ok: what validate_message_schema
\* returns on it, raises: the log levels at which a log call raises.
validate_input_message(h, ref, ok, raises) ==
    IF "debug" \in raises                                   \* line 29
    THEN [error |-> "LogError", heap |-> h, ref |-> NoRef]
    ELSE IF ~ok                                             \* line 30
    THEN IF "error" \in raises                              \* line 31
         THEN [error |-> "LogError", heap |-> h, ref |-> NoRef]
         ELSE [error |-> "ValueError", heap |-> h, ref |-> NoRef]  \* line 32
    ELSE [error |-> "none", heap |-> h, ref |-> ref]        \* line 33

(***************************************************************************)
(* compute_composite_signal                                                *)
(***************************************************************************)
VoteNames == <<"alpha", "beta", "momentum", "anomaly">>
Affirmative == <<Str("BUY"), Str("INCLUDE"), Str("OVEREXPOSED")>>
Threshold == 2

\* a mutant whose anomaly vote tests the presence of the key, not its truth
signal_votes_presence(m) ==
    [alpha    |-> get(m, "signal_alpha", None),
     beta     |-> get(m, "beta_signal", None),
     momentum |-> get(m, "momentum_signal", None),
     anomaly  |-> IF "anomaly_detected" \in DOMAIN m
                  THEN Str("IGNORE") ELSE Str("INCLUDE")]

\* a mutant that reads beta and momentum from each other's field
signal_votes_swapped(m) ==
    [alpha    |-> get(m, "signal_alpha", None),
     beta     |-> get(m, "momentum_signal", None),
     momentum |-> get(m, "beta_signal", None),
     anomaly  |-> IF Truthy(get(m, "anomaly_detected", None))
                  THEN Str("IGNORE") ELSE Str("INCLUDE")]

\* a mutant whose alpha vote reads the previous composite signal
signal_votes_feedback(m) ==
    [alpha    |-> get(m, "composite_signal", get(m, "signal_alpha", None)),
     beta     |-> get(m, "beta_signal", None),
     momentum |-> get(m, "momentum_signal", None),
     anomaly  |-> IF Truthy(get(m, "anomaly_detected", None))
                  THEN Str("IGNORE") ELSE Str("INCLUDE")]

\* lines 51-56
signal_votes(m) ==
    [alpha    |-> get(m, "signal_alpha", None),
     beta     |-> get(m, "beta_signal", None),
     momentum |-> get(m, "momentum_signal", None),
     anomaly  |-> IF Truthy(get(m, "anomaly_detected", None))
                  THEN Str("IGNORE") ELSE Str("INCLUDE")]

\* lines 58-60: sum(1 for vote in signal_votes.values() if vote in (...))
RECURSIVE SumVotes(_, _)
SumVotes(votes, i) ==
    IF i > Len(VoteNames) THEN 0
    ELSE (IF In(votes[VoteNames[i]], Affirmative) THEN 1 ELSE 0)
         + SumVotes(votes, i + 1)

vote_count(votes) == SumVotes(votes, 1)

\* a mutant with a strict threshold
composite_signal_strict(count) ==
    IF count > Threshold THEN Str("BUY") ELSE Str("HOLD")

\* line 62
composite_signal(count) ==
    IF count >= Threshold THEN Str("BUY") ELSE Str("HOLD")

\* lines 64-67
result(votes) ==
    [composite_signal |-> composite_signal(vote_count(votes)),
     signal_votes     |-> Dict(votes)]

\* a mutant that merges in the wrong order: {**result, **message}
return_merged_message_wins(h, ref, res) ==
    [error |-> "none", heap |-> Append(h, MergeMessageWins(h[ref], res)),
     ref |-> Len(h) + 1]

\* a mutant that updates the argument in place and returns it
return_merged_in_place(h, ref, res) ==
    [error |-> "none", heap |-> [h EXCEPT ![ref] = Merge(h[ref], res)],
     ref |-> ref]

\* line 70: return {**message, **result}, a new dict
return_merged(h, ref, res) ==
    [error |-> "none", heap |-> Append(h, Merge(h[ref], res)),
     ref |-> Len(h) + 1]

\* The exception, if any, that evaluating the given lookups raises.
Raised(values) == \E v \in values : v[1] = "raise"

\* h: the heap, ref: the message object, raises: the log levels at which a
\* log call raises.
compute_composite_signal(h, ref, raises) ==
    LET message == h[ref]
        symbol == get(message, "symbol", Str("UNKNOWN"))          \* line 48
        fields == {get(message, "signal_alpha", None),            \* line 52
                   get(message, "beta_signal", None),             \* line 53
                   get(message, "momentum_signal", None),         \* line 54
                   get(message, "anomaly_detected", None)}        \* line 55
    IN  IF Raised({symbol})
        THEN [error |-> "KeyError", heap |-> h, ref |-> NoRef]
        ELSE IF "info" \in raises                                 \* line 49
        THEN [error |-> "LogError", heap |-> h, ref |-> NoRef]
        ELSE IF Raised(fields)
        THEN [error |-> "KeyError", heap |-> h, ref |-> NoRef]
        ELSE IF "debug" \in raises                                \* line 69
        THEN [error |-> "LogError", heap |-> h, ref |-> NoRef]
        ELSE return_merged(h, ref, result(signal_votes(message))) \* line 70

(***************************************************************************)
(* The messages the model is run on                                        *)
(***************************************************************************)
Keys == {"symbol", "signal_alpha", "beta_signal", "momentum_signal",
         "anomaly_detected", "composite_signal", "signal_votes", "price"}

SignalOpts == {Missing, None, Str("BUY"), Str("buy"), Str("SELL"),
               Str("INCLUDE"), Str("OVEREXPOSED")}
AnomalyOpts == {Missing, None, Bool("True"), Bool("False"), Num("0"),
                Num("1"), Str(""), Str("yes")}
SymbolOpts == {Missing, Str("AAPL")}
OldSignalOpts == {Missing, Str("SELL")}
OldVotesOpts == {Missing, Dict([alpha |-> Str("BUY")])}
PriceOpts == {Missing, Num("101")}

Fields == [symbol : SymbolOpts, signal_alpha : SignalOpts,
           beta_signal : SignalOpts, momentum_signal : SignalOpts,
           anomaly_detected : AnomalyOpts, composite_signal : OldSignalOpts,
           signal_votes : OldVotesOpts, price : PriceOpts]

\* the dict holding the fields that are present
MkMessage(f) == [k \in {j \in Keys : f[j] # Missing} |-> f[k]]

Messages == {MkMessage(f) : f \in Fields}

(***************************************************************************)
(* The pipeline: validate, then aggregate                                  *)
(***************************************************************************)
InitWith(faults) ==
    /\ \E m \in Messages : heap = <<m>> /\ received = m
    /\ schemaOk \in BOOLEAN
    /\ loggerRaises \in faults
    /\ pc = "received"
    /\ error = "none"
    /\ validatedRef = NoRef
    /\ argRef = NoRef
    /\ enrichedRef = NoRef
    /\ calls = 0

\* The logging collaborator keeps its contract: no log call raises.
Init == InitWith({{}})

\* A logging collaborator whose calls at one level raise.
InitFaultyLogger == InitWith({{}} \cup {{l} : l \in LogLevels})

Validate ==
    /\ pc = "received"
    /\ LET r == validate_input_message(heap, 1, schemaOk, loggerRaises)
       IN  /\ heap' = r.heap
           /\ error' = r.error
           /\ validatedRef' = r.ref
           /\ pc' = IF r.error = "none" THEN "validated" ELSE "rejected"
    /\ UNCHANGED <<received, schemaOk, loggerRaises, argRef, enrichedRef, calls>>

Call(arg) ==
    LET r == compute_composite_signal(heap, arg, loggerRaises)
    IN  /\ heap' = r.heap
        /\ error' = r.error
        /\ enrichedRef' = r.ref
        /\ argRef' = arg
        /\ calls' = calls + 1
        /\ pc' = IF r.error = "none" THEN "enriched" ELSE "failed"
        /\ UNCHANGED <<received, schemaOk, loggerRaises, validatedRef>>

\* the aggregation step on the validated message
Compute ==
    /\ pc = "validated"
    /\ Call(validatedRef)

\* the aggregation step applied again, to its own output
Recompute ==
    /\ pc = "enriched"
    /\ calls < MaxCalls
    /\ Call(enrichedRef)

Next == Validate \/ Compute \/ Recompute

Spec == Init /\ [][Next]_vars

SpecFaultyLogger == InitFaultyLogger /\ [][Next]_vars

(***************************************************************************)
(* Properties                                                              *)
(***************************************************************************)
Arg == heap[argRef]
Out == heap[enrichedRef]
OutVotes == Out["signal_votes"][2]
Added == {"composite_signal", "signal_votes"}
FourVotes == {"alpha", "beta", "momentum", "anomaly"}
Counting == {Str("BUY"), Str("INCLUDE"), Str("OVEREXPOSED")}
FalsyValues == {None, Bool("False"), Num("0"), Str("")}
NumCounting == Cardinality({n \in FourVotes : OutVotes[n] \in Counting})

\* C1: the composite signal of every enriched output is "BUY" exactly when
\* at least two of the four votes are one of "BUY", "INCLUDE", "OVEREXPOSED"
\* (exact match), and is "HOLD" otherwise; it is never anything else.
C1_ThresholdLaw ==
    pc = "enriched" =>
        /\ Out["composite_signal"] \in {Str("BUY"), Str("HOLD")}
        /\ Out["composite_signal"] = Str("BUY") <=> NumCounting >= 2

\* exactly two counting votes, next to a lower-case "buy" and a null
C1_Witness ==
    /\ pc = "enriched"
    /\ OutVotes = [alpha |-> Str("OVEREXPOSED"), beta |-> Str("buy"),
                   momentum |-> None, anomaly |-> Str("INCLUDE")]
    /\ Out["composite_signal"] = Str("BUY")

\* C2: once validate_input_message has run on a message the schema predicate
\* rejects, the outcome is the invalid-format error, nothing was returned,
\* no object was built and the aggregation step has not run and cannot run.
C2_SchemaGate ==
    (pc # "received" /\ ~schemaOk) =>
        /\ pc = "rejected"
        /\ error = "ValueError"
        /\ validatedRef = NoRef
        /\ enrichedRef = NoRef
        /\ calls = 0
        /\ heap = <<received>>
        /\ ~ENABLED Compute

C2_Witness == pc = "rejected" /\ ~schemaOk /\ DOMAIN received # {}

\* C3: once validate_input_message has run on a message the schema predicate
\* accepts, it has returned a value with the keys and values of the input.
C3_PassThrough ==
    (pc # "received" /\ schemaOk) =>
        /\ validatedRef # NoRef
        /\ DOMAIN heap[validatedRef] = DOMAIN received
        /\ \A k \in DOMAIN received : heap[validatedRef][k] = received[k]

C3_Witness ==
    /\ pc = "validated"
    /\ schemaOk
    /\ "signal_alpha" \in DOMAIN received
    /\ received["signal_alpha"] = None
    /\ "price" \in DOMAIN heap[validatedRef]

\* C4: the keys of an enriched output are the keys of the argument plus
\* composite_signal and signal_votes; every other key keeps the argument's
\* value; the two added keys hold computed values (a BUY/HOLD signal and a
\* four-vote mapping), whatever the argument held under those names.
C4_KeyPreservation ==
    pc = "enriched" =>
        /\ DOMAIN Out = DOMAIN Arg \cup Added
        /\ \A k \in DOMAIN Arg \ Added : Out[k] = Arg[k]
        /\ Out["composite_signal"] \in {Str("BUY"), Str("HOLD")}
        /\ Out["signal_votes"][1] = "dict"
        /\ DOMAIN OutVotes = FourVotes

\* the argument already held both keys, with other values, and an unread key
C4_Witness ==
    /\ pc = "enriched"
    /\ calls = 1
    /\ Added \subseteq DOMAIN Arg
    /\ Arg["composite_signal"] = Str("SELL")
    /\ Arg["signal_votes"] = Dict([alpha |-> Str("BUY")])
    /\ "price" \in DOMAIN Arg

\* C5: the anomaly vote is "IGNORE" when anomaly_detected is present and
\* truthy, "INCLUDE" when it is missing or one of null, False, 0, "";
\* it is never anything else.
C5_AnomalyInversion ==
    pc = "enriched" =>
        /\ OutVotes["anomaly"] \in {Str("IGNORE"), Str("INCLUDE")}
        /\ OutVotes["anomaly"] = Str("IGNORE") <=>
              /\ "anomaly_detected" \in DOMAIN Arg
              /\ Arg["anomaly_detected"] \notin FalsyValues

\* present but falsy: numeric zero
C5_Witness ==
    /\ pc = "enriched"
    /\ "anomaly_detected" \in DOMAIN Arg
    /\ Arg["anomaly_detected"] = Num("0")
    /\ OutVotes["anomaly"] = Str("INCLUDE")

\* C6: signal_votes has exactly the keys alpha, beta, momentum, anomaly;
\* alpha, beta, momentum are the argument's signal_alpha, beta_signal,
\* momentum_signal, or null when the field is missing; with no signal field
\* and no anomaly_detected the votes are {null, null, null, "INCLUDE"} and
\* the composite signal is "HOLD".
FieldOrNull(k) == IF k \in DOMAIN Arg THEN Arg[k] ELSE None
SignalFields == {"signal_alpha", "beta_signal", "momentum_signal",
                 "anomaly_detected"}

C6_VotesMapping ==
    pc = "enriched" =>
        /\ DOMAIN OutVotes = FourVotes
        /\ OutVotes["alpha"] = FieldOrNull("signal_alpha")
        /\ OutVotes["beta"] = FieldOrNull("beta_signal")
        /\ OutVotes["momentum"] = FieldOrNull("momentum_signal")
        /\ (DOMAIN Arg \cap SignalFields = {}) =>
              /\ OutVotes = [alpha |-> None, beta |-> None, momentum |-> None,
                             anomaly |-> Str("INCLUDE")]
              /\ Out["composite_signal"] = Str("HOLD")

\* Scenario C: no signal field and no anomaly_detected
C6_Witness ==
    /\ pc = "enriched"
    /\ calls = 1
    /\ DOMAIN Arg \cap SignalFields = {}
    /\ Out["composite_signal"] = Str("HOLD")

\* C7: with a logger whose calls raise, validate_input_message still returns
\* an accepted message unchanged and still ends in the invalid-format error
\* on a rejected one.
C7_LoggerFailureHarmless ==
    pc # "received" =>
        IF schemaOk
        THEN validatedRef # NoRef /\ heap[validatedRef] = received
        ELSE error = "ValueError"

\* C8: the aggregation step can always run on a validated message, and once
\* it has run it has completed with an enriched output and no error,
\* whichever fields are present or missing.
C8_Total ==
    /\ pc = "validated" => ENABLED Compute
    /\ calls >= 1 =>
          /\ pc = "enriched"
          /\ error = "none"
          /\ enrichedRef # NoRef
          /\ Added \subseteq DOMAIN Out

\* every field the function looks up is missing
C8_Witness ==
    /\ pc = "enriched"
    /\ calls = 1
    /\ DOMAIN Arg \cap (SignalFields \cup {"symbol"}) = {}

\* C9: a call of compute_composite_signal leaves every existing object,
\* its argument included, with the keys and values it had, and returns an
\* object that did not exist before the call.
IsCall == pc \in {"validated", "enriched"} /\ calls' = calls + 1

C9_NoMutation ==
    [][IsCall =>
          /\ \A i \in 1..Len(heap) : heap'[i] = heap[i]
          /\ pc' = "enriched" =>
                /\ enrichedRef' \notin 1..Len(heap)
                /\ enrichedRef' \in 1..Len(heap')
                /\ enrichedRef' # argRef']_vars

\* after the call the argument still holds its own composite_signal
C9_Witness ==
    /\ pc = "enriched"
    /\ calls = 1
    /\ heap[argRef] = received
    /\ "composite_signal" \in DOMAIN received
    /\ received["composite_signal"] # Out["composite_signal"]
    /\ enrichedRef # argRef

\* C10: applying compute_composite_signal to its own output returns a
\* mapping equal to that output.
C10_Idempotent ==
    (pc = "enriched" /\ calls >= 2) =>
        /\ DOMAIN Out = DOMAIN Arg
        /\ \A k \in DOMAIN Arg : Out[k] = Arg[k]

\* a second application, on an output whose signal is "BUY"
C10_Witness ==
    /\ pc = "enriched"
    /\ calls = 2
    /\ enrichedRef # argRef
    /\ Arg["composite_signal"] = Str("BUY")
    /\ Arg["signal_votes"][2]["alpha"] = Str("SELL")

====
